---- MODULE Spec2Model ----
(***************************************************************************)
(* Model of src/gc.c: a non-moving mark and sweep collector that pool      *)
(* allocates small objects and keeps big objects on a list.                *)
(*                                                                         *)
(* Memory is a map from word addresses to machine words.  A pool cell's    *)
(* header word is, as in the union gcval_t, at the same time the freelist  *)
(* link `next`, the `flags` word and the bit fields marked (bit 0),        *)
(* finalize (bit 1) and otherbits (the rest).  A big record has its `next` *)
(* word at its address and its flags word one word later.                  *)
(***************************************************************************)
EXTENDS Integers, Sequences, FiniteSets, TLC

\* ------------------------------------------------------------------ bounds
\* page-sized blocks the OS allocator can hand out
MaxPages == 2
\* big blocks the OS allocator can hand out
MaxBig == 2
\* calls of allocb in one run
MaxAllocs == 2
\* the largest request of the runs that try every request size
MaxReq == 2060

\* --------------------------------------------------------------- constants
GC_PAGE_SZ == 16384
N_POOLS == 16
\* sizeof(void*), sizeof(uptrint_t) with BITS64
WORD == 8
NULL == 0
\* the largest request served from a pool
MAX_POOL_SZ == 2048
collect_interval == 8192 * 1024
szc == <<8, 16, 24, 32, 48, 64, 96, 128, 192, 256, 384, 512, 768, 1024, 1536, 2048>>

\* request sizes the mutator passes to allocb: the largest size class, a big
\* object, and a big object that alone exceeds collect_interval
Sizes == {MAX_POOL_SZ, 2 * MAX_POOL_SZ, collect_interval + 1}

VARIABLES
    mem,            \* word address -> word, over the words of blocks not freed
    blocks,         \* base addresses malloc returned and free has not been given
    pools,          \* [0..N_POOLS-1 -> [osize, pages, freelist]]
    big_objects,    \* head of the big object list
    allocd_bytes,
    roots,          \* payload pointers the root provider enumerates
    ref,            \* payload pointer -> the reference its object holds (or NULL)
    last,           \* the mutator's local: the pointer allocb returned last
    pc,             \* "idle", "gc_mark", "gc_sweep", "alloc"
    cur_sz,         \* sz of the allocb call in progress, 0 if none
    free_calls,     \* addresses passed to free by the latest sweep, in order
    live,           \* history: payloads allocb returned and not reclaimed since
    pool_pages,     \* history: pool -> pages it got from the OS, not yet freed
    n_allocs,       \* history: calls of allocb so far
    entry_trig,     \* history: allocd_bytes > collect_interval at allocb's entry
    n_collect,      \* history: collections run inside the latest allocb call
    req_sum,        \* history: sizes requested since the latest collection ended
    mk              \* the mark phase in progress, when it is run step by step

vars == <<mem, blocks, pools, big_objects, allocd_bytes, roots, ref, last, pc,
          cur_sz, free_calls, live, pool_pages, n_allocs, entry_trig, n_collect,
          req_sum, mk>>

\* ------------------------------------------------------------ header words
marked(w) == w % 2
otherbits(w) == w \div 4
gcv_isfree(w) == otherbits(w) /= 0
setmark(w) == w + (1 - (w % 2))
unmark(w) == w - (w % 2)

gc_val(o) == o - WORD

Upd(m, a, w) == [x \in DOMAIN m \cup {a} |-> IF x = a THEN w ELSE m[x]]
Drop(m, D) == [x \in DOMAIN m \ D |-> m[x]]

\* ------------------------------------------------------------ OS allocator
PageAddr(k) == k * GC_PAGE_SZ
BigAddr(j) == (MaxPages + 1) * GC_PAGE_SZ + j * 2 * collect_interval
PageSlots == {PageAddr(k) : k \in 1..MaxPages}
BigSlots == {BigAddr(j) : j \in 1..MaxBig}
IsBigPayload(o) == o >= BigAddr(1)
\* malloc: the OS allocator hands out the lowest block of the wanted kind that
\* is not in use (first fit); it has none to give when the set is empty
malloc(slots) == {x \in slots \ blocks : \A y \in slots \ blocks : x <= y}

\* ----------------------------------------------------------------- szclass
\* the first comparison strict
szclass_strict(sz) ==
    IF sz < 8 THEN 0
    ELSE IF sz <= 128 THEN
        IF sz <= 16 THEN 1
        ELSE IF sz <= 32 THEN (IF sz <= 24 THEN 2 ELSE 3)
        ELSE IF sz <= 64 THEN (IF sz <= 48 THEN 4 ELSE 5)
        ELSE IF sz <= 96 THEN 6 ELSE 7
    ELSE IF sz <= 512 THEN
        IF sz <= 256 THEN (IF sz <= 192 THEN 8 ELSE 9)
        ELSE IF sz <= 384 THEN 10 ELSE 11
    ELSE IF sz <= 1024 THEN (IF sz <= 768 THEN 12 ELSE 13)
    ELSE IF sz <= 1536 THEN 14 ELSE 15

szclass(sz) ==
    IF sz <= 8 THEN 0
    ELSE IF sz <= 128 THEN
        IF sz <= 16 THEN 1
        ELSE IF sz <= 32 THEN (IF sz <= 24 THEN 2 ELSE 3)
        ELSE IF sz <= 64 THEN (IF sz <= 48 THEN 4 ELSE 5)
        ELSE IF sz <= 96 THEN 6 ELSE 7
    ELSE IF sz <= 512 THEN
        IF sz <= 256 THEN (IF sz <= 192 THEN 8 ELSE 9)
        ELSE IF sz <= 384 THEN 10 ELSE 11
    ELSE IF sz <= 1024 THEN (IF sz <= 768 THEN 12 ELSE 13)
    ELSE IF sz <= 1536 THEN 14 ELSE 15

jl_gc_init == [i \in 0..(N_POOLS - 1) |->
                 [osize |-> szc[i + 1] + WORD, pages |-> NULL, freelist |-> NULL]]

\* ------------------------------------------------------------- list walks
\* The cells reached from a freelist head through their next words, in order.
RECURSIVE ListFrom(_, _, _)
ListFrom(m, a, fuel) ==
    IF a = NULL \/ a \notin DOMAIN m \/ fuel = 0 THEN <<>>
    ELSE <<a>> \o ListFrom(m, m[a], fuel - 1)

Fuel == Cardinality(DOMAIN mem) + 1
SeqSet(s) == {s[i] : i \in 1..Len(s)}
FreelistOf(i) == ListFrom(mem, pools[i].freelist, Fuel)
PagesOf(i) == ListFrom(mem, pools[i].pages, Fuel)
BigList == ListFrom(mem, big_objects, Fuel)

\* a store through a pointer-to-link cursor: NULL stands for the address of
\* the list head itself (&p->freelist, &p->pages, &big_objects), any other
\* value for the next word of the cell, page or record at that address
Store(m, head, cursor, val) ==
    IF cursor = NULL THEN [mem |-> m, head |-> val]
    ELSE [mem |-> Upd(m, cursor, val), head |-> head]

\* ---------------------------------------------------------------- add_page
\* the loop stopping one cell early
add_page_loop_short(m, fl, pfl, v, lim, osize) ==
    LET n == IF v <= lim THEN (lim - v) \div osize ELSE 0
        s == Store(m, fl, pfl, v)
        links == [c \in {v + k * osize : k \in 0..(n - 2)} |-> c + osize]
    IN  IF n = 0 THEN [mem |-> m, head |-> fl, pfl |-> pfl]
        ELSE [mem |-> links @@ s.mem, head |-> s.head,
              pfl |-> v + (n - 1) * osize]

\* for (v = first; v <= lim; v += osize) { *pfl = v; pfl = &v->next; }
\* The loop runs once for each v = first + k*osize that is <= lim; the store
\* of iteration k goes through the cursor iteration k-1 left, so it writes the
\* next word of cell k-1, and the first store goes through the cursor given.
add_page_loop(m, fl, pfl, v, lim, osize) ==
    LET n == IF v <= lim THEN (lim - v) \div osize + 1 ELSE 0
        s == Store(m, fl, pfl, v)
        links == [c \in {v + k * osize : k \in 0..(n - 2)} |-> c + osize]
    IN  IF n = 0 THEN [mem |-> m, head |-> fl, pfl |-> pfl]
        ELSE [mem |-> links @@ s.mem, head |-> s.head,
              pfl |-> v + (n - 1) * osize]

\* pg->next = p->pages; p->pages = pg->next;
add_page_link(p, m, pg) ==
    LET m1 == Upd(m, pg, p.pages)
    IN  [mem |-> m1, pages |-> m1[pg]]

\* pg is the block malloc(sizeof(page_t)) returned
add_page(p, m, pg) ==
    LET lim == pg + GC_PAGE_SZ - p.osize
        oldfl == p.freelist
        r == add_page_loop(m, p.freelist, NULL, pg + WORD, lim, p.osize)
        t == Store(r.mem, r.head, r.pfl, oldfl)
        k == add_page_link(p, t.mem, pg)
    IN  [pool |-> [p EXCEPT !.freelist = t.head, !.pages = k.pages],
         mem |-> k.mem]

\* -------------------------------------------------------------- pool_alloc
\* the cell handed out with the freelist link still in its header
pool_take_dirty(p, m) ==
    LET v == p.freelist
    IN  [pool |-> [p EXCEPT !.freelist = m[v]],
         mem |-> m,
         ret |-> v + WORD]

\* p->freelist is not NULL here
pool_take(p, m) ==
    LET v == p.freelist
    IN  [pool |-> [p EXCEPT !.freelist = m[v]],
         mem |-> Upd(m, v, 0),
         ret |-> v + WORD]

pool_alloc(p, m, pg) ==
    IF p.freelist = NULL
    THEN LET a == add_page(p, m, pg) IN pool_take(a.pool, a.mem)
    ELSE pool_take(p, m)

\* --------------------------------------------------------------- alloc_big
\* v is the block malloc(sz + 2*sizeof(void*)) returned
alloc_big(m, head, v) ==
    [mem |-> Upd(Upd(m, v, head), v + WORD, 0),
     big_objects |-> v,
     ret |-> v + 2 * WORD]

\* --------------------------------------------------------------- sweep_big
\* the cursor left where it was after a marked record
sweep_big_cursor_stuck(pv, v) == pv

\* pv = &v->next, for a record that stays on the list
sweep_big_cursor(pv, v) == v

\* the record freed without being taken off the list
sweep_big_unlink_skip(m, head, pv, nxt) == [mem |-> m, head |-> head]

\* *pv = nxt, for a record that is freed
sweep_big_unlink(m, head, pv, nxt) == Store(m, head, pv, nxt)

RECURSIVE sweep_big_loop(_, _, _, _, _)
sweep_big_loop(m, head, v, pv, freed) ==
    IF v = NULL THEN [mem |-> m, big_objects |-> head, freed |-> freed]
    ELSE LET nxt == m[v]
             w == m[v + WORD]
         IN  IF marked(w) = 1
             THEN sweep_big_loop(Upd(m, v + WORD, unmark(w)), head, nxt,
                                 sweep_big_cursor(pv, v), freed)
             ELSE LET s == sweep_big_unlink(m, head, pv, nxt)
                  IN  sweep_big_loop(Drop(s.mem, {v, v + WORD}), s.head, nxt, pv,
                                     Append(freed, v))

sweep_big(m, head) == sweep_big_loop(m, head, head, NULL, <<>>)

\* -------------------------------------------------------------- sweep_pool
RECURSIVE sweep_cells(_, _, _, _, _, _, _)
sweep_cells(m, fl, pfl, empty, v, lim, osize) ==
    IF v <= lim
    THEN LET w == m[v]
             e == IF ~gcv_isfree(w) THEN FALSE ELSE empty
         IN  IF gcv_isfree(w) \/ marked(w) = 0
             THEN LET s == Store(m, fl, pfl, v)
                  IN  sweep_cells(s.mem, s.head, v, e, v + osize, lim, osize)
             ELSE sweep_cells(Upd(m, v, unmark(w)), fl, pfl, e, v + osize, lim, osize)
    ELSE [mem |-> m, head |-> fl, pfl |-> pfl, empty |-> empty]

RECURSIVE sweep_pages(_, _, _, _, _, _, _, _)
sweep_pages(m, pages, fl, pg, ppg, pfl, freed, osize) ==
    IF pg /= NULL
    THEN LET c == sweep_cells(m, fl, pfl, TRUE, pg + WORD, pg + GC_PAGE_SZ - osize, osize)
             nextpg == c.mem[pg]
         IN  IF c.empty
             THEN LET s == Store(c.mem, pages, ppg, nextpg)
                      gone == {a \in DOMAIN s.mem : a >= pg /\ a < pg + GC_PAGE_SZ}
                  IN  sweep_pages(Drop(s.mem, gone), s.head, c.head, nextpg, ppg, pfl,
                                  Append(freed, pg), osize)
             ELSE sweep_pages(c.mem, pages, c.head, nextpg, pg, c.pfl, freed, osize)
    ELSE LET s == Store(m, fl, pfl, NULL)
         IN  [mem |-> s.mem, pages |-> pages, freelist |-> s.head, freed |-> freed]

sweep_pool(p, m) ==
    LET r == sweep_pages(m, p.pages, p.freelist, p.pages, NULL, NULL, <<>>, p.osize)
    IN  [pool |-> [p EXCEPT !.pages = r.pages, !.freelist = r.freelist],
         mem |-> r.mem, freed |-> r.freed]

\* ---------------------------------------------------------------- gc_sweep
RECURSIVE sweep_pools(_, _, _, _)
sweep_pools(i, ps, m, freed) ==
    IF i < N_POOLS
    THEN LET r == sweep_pool(ps[i], m)
         IN  sweep_pools(i + 1, [ps EXCEPT ![i] = r.pool], r.mem, freed \o r.freed)
    ELSE [pools |-> ps, mem |-> m, freed |-> freed]

gc_sweep(m, head, ps) ==
    LET b == sweep_big(m, head)
        r == sweep_pools(0, ps, b.mem, b.freed)
    IN  [mem |-> r.mem, big_objects |-> b.big_objects, pools |-> r.pools,
         freed |-> r.freed]

\* ----------------------------------------------------------------- gc_mark
\* The reference an object holds: every object is traced as a one-element
\* tuple (the element may be NULL) or as a bits value without references.
FieldOf(v) == IF v \in DOMAIN ref THEN ref[v] ELSE NULL

\* gc_marked(v) of an object whose block was freed reads freed memory: the
\* header addresses in `stale` read as marked, the others as unmarked.
\* an object never found marked
gc_marked_never(h, m, stale) == FALSE

gc_marked(h, m, stale) == IF h \in DOMAIN m THEN marked(m[h]) = 1 ELSE h \in stale

RECURSIVE gc_markval(_, _, _)
gc_markval(v, m, stale) ==
    LET h == gc_val(v)
        seen == gc_marked(h, m, stale)
        m1 == Upd(m, h, IF h \in DOMAIN m THEN setmark(m[h]) ELSE 1)
    IN  IF seen THEN m
        ELSE IF FieldOf(v) /= NULL THEN gc_markval(FieldOf(v), m1, stale)
        ELSE m1

RECURSIVE gc_mark_roots(_, _, _)
gc_mark_roots(R, m, stale) ==
    IF R = {} THEN m
    ELSE LET r == CHOOSE x \in R : TRUE
         IN  gc_mark_roots(R \ {r}, gc_markval(r, m, stale), stale)

\* the words written into freed memory are not kept
gc_mark(m, stale) ==
    LET m1 == gc_mark_roots(roots, m, stale)
    IN  [a \in DOMAIN m |-> m1[a]]

\* ------------------------------------------------------------ reachability
RECURSIVE Closure(_, _)
Closure(S, within) ==
    LET T == S \cup ({FieldOf(o) : o \in S} \cap within)
    IN  IF T = S THEN S ELSE Closure(T, within)

\* everything the mutator can name: through roots and fields, freed or not
Addressable == Closure(roots, DOMAIN ref)
\* the allocated objects reachable from the root set through allocated objects
Reachable == Closure(roots \cap live, live)
\* header addresses of freed objects the mark phase may read
Dangling == {gc_val(o) : o \in Addressable} \ DOMAIN mem

\* ------------------------------------------------------------------- allocb
\* the trigger tested after the request is accounted for
allocb_trigger_late(ab, sz) == ab + sz > collect_interval

\* if (allocd_bytes > collect_interval)
allocb_trigger(ab, sz) == ab > collect_interval

\* the header word counted with the request
allocb_account_header(ab, sz) == ab + sz + WORD

\* allocd_bytes += sz
allocb_account(ab, sz) == ab + sz

\* no mark phase in progress
MkOff == [on |-> FALSE, todo |-> {}, cur |-> NULL, stale |-> {}, cnt |-> <<>>]

\* -------------------------------------------------------------------- init
Init ==
    /\ mem = <<>>
    /\ blocks = {}
    /\ pools = jl_gc_init
    /\ big_objects = NULL
    /\ allocd_bytes = 0
    /\ roots = {}
    /\ ref = <<>>
    /\ last = NULL
    /\ pc = "idle"
    /\ cur_sz = 0
    /\ free_calls = <<>>
    /\ live = {}
    /\ pool_pages = [i \in 0..(N_POOLS - 1) |-> {}]
    /\ n_allocs = 0
    /\ entry_trig = FALSE
    /\ n_collect = 0
    /\ req_sum = 0
    /\ mk = MkOff

heap == <<mem, blocks, pools, big_objects, free_calls, live, pool_pages>>
hist == <<n_allocs, entry_trig, n_collect, req_sum, mk>>

\* ------------------------------------------------------------------ allocb
\* void *allocb(size_t sz): entry and the trigger test
allocb_enter(sz) ==
    /\ pc = "idle"
    /\ n_allocs < MaxAllocs
    /\ cur_sz' = sz
    /\ pc' = IF allocb_trigger(allocd_bytes, sz) THEN "gc_mark" ELSE "alloc"
    /\ n_allocs' = n_allocs + 1
    /\ entry_trig' = (allocd_bytes > collect_interval)
    /\ n_collect' = 0
    /\ req_sum' = req_sum + sz
    /\ UNCHANGED <<heap, allocd_bytes, roots, ref, last, mk>>

\* the rest of allocb after the trigger test: account, then allocate
allocb_big ==
    /\ pc = "alloc"
    /\ cur_sz > MAX_POOL_SZ
    /\ \E v \in malloc(BigSlots) :
         LET a == alloc_big(mem, big_objects, v)
         IN  /\ mem' = a.mem
             /\ big_objects' = a.big_objects
             /\ blocks' = blocks \cup {v}
             /\ ref' = Upd(ref, a.ret, NULL)
             /\ live' = live \cup {a.ret}
             /\ last' = a.ret
    /\ allocd_bytes' = allocb_account(allocd_bytes, cur_sz)
    /\ pc' = "idle"
    /\ cur_sz' = 0
    /\ UNCHANGED <<pools, roots, free_calls, pool_pages, hist>>

allocb_pool ==
    /\ pc = "alloc"
    /\ cur_sz <= MAX_POOL_SZ
    /\ LET i == szclass(cur_sz)
           grow == pools[i].freelist = NULL
       IN  \E pg \in (IF grow THEN malloc(PageSlots) ELSE {NULL}) :
             LET a == pool_alloc(pools[i], mem, pg)
             IN  /\ mem' = a.mem
                 /\ pools' = [pools EXCEPT ![i] = a.pool]
                 /\ blocks' = IF grow THEN blocks \cup {pg} ELSE blocks
                 /\ pool_pages' = IF grow
                                  THEN [pool_pages EXCEPT ![i] = @ \cup {pg}]
                                  ELSE pool_pages
                 /\ ref' = Upd(ref, a.ret, NULL)
                 /\ live' = live \cup {a.ret}
                 /\ last' = a.ret
    /\ allocd_bytes' = allocb_account(allocd_bytes, cur_sz)
    /\ pc' = "idle"
    /\ cur_sz' = 0
    /\ UNCHANGED <<big_objects, roots, free_calls, hist>>

\* -------------------------------------------------------------- gc_collect
\* the mutator calls gc_collect() itself
gc_collect_call ==
    /\ pc = "idle"
    /\ pc' = "gc_mark"
    /\ UNCHANGED <<heap, allocd_bytes, roots, ref, last, cur_sz, hist>>

\* gc_collect: gc_mark()
gc_mark_step ==
    /\ pc = "gc_mark"
    /\ \E stale \in SUBSET Dangling : mem' = gc_mark(mem, stale)
    /\ pc' = "gc_sweep"
    /\ last' = NULL
    /\ n_collect' = IF cur_sz /= 0 THEN n_collect + 1 ELSE n_collect
    /\ UNCHANGED <<blocks, pools, big_objects, free_calls, live, pool_pages,
                   allocd_bytes, roots, ref, cur_sz, n_allocs, entry_trig, req_sum,
                   mk>>

\* the objects of `live` that the heap `h` (after a sweep) no longer holds:
\* their block was freed, or their cell is on a freelist
Reclaimed(h) ==
    LET fuel == Cardinality(DOMAIN h.mem) + 1
        free == UNION {SeqSet(ListFrom(h.mem, h.pools[i].freelist, fuel)) :
                         i \in 0..(N_POOLS - 1)}
    IN  {o \in live : gc_val(o) \notin DOMAIN h.mem \/ gc_val(o) \in free}

\* gc_collect: gc_sweep(); allocd_bytes = 0;
gc_sweep_step ==
    /\ pc = "gc_sweep"
    /\ LET h == gc_sweep(mem, big_objects, pools)
       IN  /\ mem' = h.mem
           /\ big_objects' = h.big_objects
           /\ pools' = h.pools
           /\ free_calls' = h.freed
           /\ blocks' = blocks \ SeqSet(h.freed)
           /\ pool_pages' = [i \in 0..(N_POOLS - 1) |-> pool_pages[i] \ SeqSet(h.freed)]
           /\ live' = live \ Reclaimed(h)
    /\ allocd_bytes' = 0
    /\ req_sum' = cur_sz
    /\ pc' = IF cur_sz /= 0 THEN "alloc" ELSE "idle"
    /\ UNCHANGED <<roots, ref, last, cur_sz, n_allocs, entry_trig, n_collect, mk>>

\* ----------------------------------------------------------------- mutator
\* what the mutator holds a pointer to between calls; it stores and roots
\* only pointers it holds
Held == Addressable \cup ({last} \ {NULL})

set_field(o, t) ==
    /\ pc = "idle"
    /\ o \in live
    /\ ref[o] /= t
    /\ ref' = [ref EXCEPT ![o] = t]
    /\ UNCHANGED <<heap, allocd_bytes, roots, last, pc, cur_sz, hist>>

add_root(o) ==
    /\ pc = "idle"
    /\ o \notin roots
    /\ roots' = roots \cup {o}
    /\ UNCHANGED <<heap, allocd_bytes, ref, last, pc, cur_sz, hist>>

drop_root(o) ==
    /\ pc = "idle"
    /\ o \in roots
    /\ roots' = roots \ {o}
    /\ UNCHANGED <<heap, allocd_bytes, ref, last, pc, cur_sz, hist>>

Next ==
    \/ \E sz \in Sizes : allocb_enter(sz)
    \/ allocb_big
    \/ allocb_pool
    \/ gc_collect_call
    \/ gc_mark_step
    \/ gc_sweep_step
    \/ \E o \in Held, t \in Held \cup {NULL} : set_field(o, t)
    \/ \E o \in Held : add_root(o)
    \/ \E o \in roots : drop_root(o)

Spec == Init /\ [][Next]_vars

\* ============================================================== properties
PoolIds == 0..(N_POOLS - 1)
FreeCells(i) == SeqSet(FreelistOf(i))
OnAFreelist(c) == \E i \in PoolIds : c \in FreeCells(i)
BigRecord(o) == o - 2 * WORD
IsMarked(o) == marked(mem[gc_val(o)]) = 1
\* cells per page, and the cells of a page, from the page layout
CellsPerPage(osize) == (GC_PAGE_SZ - WORD) \div osize
CellsOfPage(pg, osize) == {pg + WORD + k * osize : k \in 0..(CellsPerPage(osize) - 1)}
InPage(c, pg) == c > pg /\ c < pg + GC_PAGE_SZ
NoDuplicates(s) == \A a, b \in 1..Len(s) : s[a] = s[b] => a = b
Count(s, x) == Cardinality({k \in 1..Len(s) : s[k] = x})

\* o is allocated: its block was not freed, and it is linked on big_objects
\* (a big object) or on no freelist (a pool cell)
Allocated(o) ==
    /\ gc_val(o) \in DOMAIN mem
    /\ IF IsBigPayload(o) THEN BigRecord(o) \in SeqSet(BigList)
       ELSE ~OnAFreelist(gc_val(o))

\* C1: every object reachable from the root set when a collection starts is
\* still allocated when the collection ends (not freed, not unlinked from
\* big_objects, not put on a freelist), in the first and in every later cycle.
C1_ReachableSurvive ==
    [][pc = "gc_sweep" => \A o \in Reachable : Allocated(o)']_vars

\* C2: at the end of the mark phase of every collection cycle, every object
\* reachable from the root set has marked = 1.
C2_ReachableMarked ==
    pc = "gc_sweep" => \A o \in Reachable : IsMarked(o)

\* C3: when collect has returned, every surviving object has marked = 0: no
\* allocated object carries a set mark bit while the mutator runs.
C3_SurvivorsUnmarked ==
    pc = "idle" => \A o \in live : ~IsMarked(o)

\* C4: after collect, no object that was unreachable when the collection
\* started remains allocated: its cell is on a freelist or its page was
\* released, a big object is gone from big_objects.
C4_GarbageReclaimed ==
    [][pc = "gc_sweep" => \A o \in live \ Reachable : ~Allocated(o)']_vars

\* C5: within one allocb call collect is invoked exactly once if
\* allocd_bytes > collect_interval held on entry, and not at all otherwise;
\* never more than once.
C5_CollectOncePerAlloc ==
    /\ n_collect <= 1
    /\ pc \in {"idle", "alloc"} => n_collect = (IF entry_trig THEN 1 ELSE 0)

\* C5 witness: an allocb call that found the threshold exceeded has returned
\* after one collection.
C5_Witness ==
    pc = "idle" /\ entry_trig /\ n_collect = 1 /\ last /= NULL

\* C6: between calls allocd_bytes equals the sum of the sizes passed to allocb
\* since the latest collection ended, the request that triggered a collection
\* being counted after it.
C6_AllocdBytesIsSum ==
    pc = "idle" => allocd_bytes = req_sum

\* C6 witness: an allocb call that triggered a collection has returned and
\* allocd_bytes holds that request alone.
C6_Witness ==
    pc = "idle" /\ entry_trig /\ n_collect = 1 /\ allocd_bytes = MAX_POOL_SZ

\* C7: for every pool, every cell on the freelist lies inside some page that
\* is in the pool's page list.
C7_FreelistInPages ==
    \A i \in PoolIds : \A c \in FreeCells(i) :
        \E pg \in SeqSet(PagesOf(i)) : InPage(c, pg)

\* the cells of the pages pool i holds, and those of them that survive a
\* collection (the cells of the objects reachable when it runs)
PoolCells(i) == UNION {CellsOfPage(pg, pools[i].osize) : pg \in pool_pages[i]}
Survivors(i) == {gc_val(o) : o \in Reachable} \cap PoolCells(i)
EndsInNull(i) ==
    LET fl == FreelistOf(i)
    IN  IF fl = <<>> THEN pools[i].freelist = NULL ELSE mem[fl[Len(fl)]] = NULL

\* C8: after every collection the cells of each pool's pages are partitioned
\* into survivors and free cells: every cell that is no survivor is on the
\* freelist exactly once, the freelist has no duplicates and ends in null, and
\* its length is cells per page x pages - survivors.
C8_Partition ==
    \A i \in PoolIds :
        /\ NoDuplicates(FreelistOf(i))
        /\ EndsInNull(i)
        /\ FreeCells(i) = PoolCells(i) \ Survivors(i)
        /\ Len(FreelistOf(i)) =
             CellsPerPage(pools[i].osize) * Cardinality(pool_pages[i])
               - Cardinality(Survivors(i))

C8_PartitionAfterCollect ==
    [][pc = "gc_sweep" => C8_Partition']_vars

\* no cell of page pg holds an allocated object whose mark bit is set
NoMarkedCell(pg, osize) ==
    \A c \in CellsOfPage(pg, osize) : gcv_isfree(mem[c]) \/ marked(mem[c]) = 0

\* C9: a pool page none of whose cells is marked when the sweep runs is
\* returned to the OS in that same cycle, removed from the pool's page list,
\* and none of its cells stay on the freelist.
C9_EmptyPageReleased ==
    [][pc = "gc_sweep" =>
         \A i \in PoolIds : \A pg \in pool_pages[i] :
             NoMarkedCell(pg, pools[i].osize) =>
                 /\ pg \notin blocks'
                 /\ pg \notin SeqSet(PagesOf(i))'
                 /\ \A c \in FreeCells(i)' : ~InPage(c, pg)]_vars

BigMarked(v) == marked(mem[v + WORD]) = 1
BigUnmarked(v) == ~BigMarked(v)

\* C10: sweep_big leaves on big_objects exactly the records that were marked
\* when it started, in their previous order and each with marked = 0, and
\* passes every unmarked record to free exactly once (and no marked one).
C10_SweepBig ==
    [][pc = "gc_sweep" =>
         /\ BigList' = SelectSeq(BigList, BigMarked)
         /\ \A k \in 1..Len(BigList') : marked(mem'[BigList'[k] + WORD]) = 0
         /\ \A k \in 1..Len(BigList) :
                Count(free_calls', BigList[k]) = (IF BigMarked(BigList[k]) THEN 0 ELSE 1)]_vars

\* C10 witness: a collection has just ended (nothing was allocated since) that
\* freed a big record and kept another on big_objects.
C10_Witness ==
    /\ pc = "idle" /\ allocd_bytes = 0
    /\ \E k \in 1..Len(free_calls) : free_calls[k] \in BigSlots
    /\ BigList /= <<>>

\* ------------------------------------------------- every request size once
\* the first allocb call of a run, with any request size up to MaxReq
request_first(sz) ==
    /\ n_allocs = 0
    /\ allocb_enter(sz)

NextSz ==
    \/ \E sz \in 1..MaxReq : request_first(sz)
    \/ allocb_big
    \/ allocb_pool

SpecSz == Init /\ [][NextSz]_vars

\* the smallest size class that holds sz bytes, from the table of classes
SmallestClass(sz) ==
    CHOOSE k \in PoolIds : szc[k + 1] >= sz /\ \A j \in 0..(k - 1) : szc[j + 1] < sz

\* c is a cell of pool k: it lies on the cell grid of a page in use and ends
\* inside that page
CellOfPool(c, k, blks) ==
    \E pg \in blks \cap PageSlots :
        /\ c >= pg + WORD
        /\ (c - pg - WORD) % pools[k].osize = 0
        /\ c + pools[k].osize <= pg + GC_PAGE_SZ

\* C11: allocb(sz) returns a payload of at least sz bytes: for sz up to 2048
\* the cell comes from the pool of the smallest size class >= sz, whose osize
\* is that class plus one header word, and no other pool and not big_objects
\* is touched; for sz > 2048 the object is a new record at the head of
\* big_objects and no pool is touched.
C11_SizeClass ==
    [][pc = "alloc" =>
         IF cur_sz <= MAX_POOL_SZ
         THEN LET k == SmallestClass(cur_sz)
              IN  /\ szclass(cur_sz) = k
                  /\ pools[k].osize = szc[k + 1] + WORD
                  /\ pools[k].osize - WORD >= cur_sz
                  /\ CellOfPool(gc_val(last'), k, blocks')
                  /\ pools'[k] /= pools[k]
                  /\ \A j \in PoolIds \ {k} : pools'[j] = pools[j]
                  /\ big_objects' = big_objects
         ELSE /\ big_objects' = BigRecord(last')
              /\ BigRecord(last') \in BigSlots \ blocks
              /\ mem'[big_objects'] = big_objects
              /\ pools' = pools]_vars

\* C11 witness: allocb(129) has returned a cell of pool 8, a page of which is
\* in use.
C11_Witness ==
    /\ pc = "idle" /\ req_sum = 129 /\ last /= NULL
    /\ CellOfPool(gc_val(last), 8, blocks)
    /\ pools[8].freelist /= NULL

\* C12: the object allocb returns has a header word of zero; on the pool path
\* it is the cell at the head of the pool's freelist (the first cell of the
\* page add_page obtained when the freelist was empty), exactly that cell leaves
\* the freelist and the cells behind it keep their order.
C12_HeaderZeroHeadTaken ==
    [][pc = "alloc" =>
         /\ mem'[gc_val(last')] = 0
         /\ cur_sz <= MAX_POOL_SZ =>
              \A i \in {szclass(cur_sz)} :
              LET fl == FreelistOf(i)
                  grown == pool_pages'[i] \ pool_pages[i]
              IN  IF fl /= <<>>
                  THEN /\ gc_val(last') = Head(fl)
                       /\ FreelistOf(i)' = Tail(fl)
                       /\ grown = {}
                  ELSE /\ Cardinality(grown) = 1
                       /\ \A pg \in grown :
                            /\ gc_val(last') = pg + WORD
                            /\ Len(FreelistOf(i)') = CellsPerPage(pools[i].osize) - 1
                            /\ gc_val(last') \notin FreeCells(i)'
                            /\ FreeCells(i)' \subseteq CellsOfPage(pg, pools[i].osize)]_vars

\* the second allocation from a pool took the second cell of its page, the
\* head of the freelist the first allocation left
C12_Witness ==
    /\ pc = "idle"
    /\ n_allocs = 2
    /\ \E pg \in pool_pages[15] :
         /\ last = pg + WORD + pools[15].osize + WORD
         /\ mem[gc_val(last)] = 0
         /\ Len(FreelistOf(15)) = CellsPerPage(pools[15].osize) - 2

\* ------------------------------------------------- the OS allocator fails
\* add_page when malloc(sizeof(page_t)) returns NULL: nothing tests pg, so
\* v = &pg->data[0] is NULL + WORD, the first iteration stores it in
\* p->freelist and the second stores through it.  What follows a store
\* through a null-based pointer is undefined: the process faults with the
\* store to p->freelist done, or with that store not yet made.
add_page_null ==
    /\ pc = "alloc"
    /\ cur_sz <= MAX_POOL_SZ
    /\ \E i \in {szclass(cur_sz)} :
         /\ pools[i].freelist = NULL
         /\ \E fl \in {NULL, NULL + WORD} :
              pools' = [pools EXCEPT ![i].freelist = fl]
    /\ pc' = "fault"
    /\ UNCHANGED <<mem, blocks, big_objects, allocd_bytes, roots, ref, last,
                   cur_sz, free_calls, live, pool_pages, hist>>

\* alloc_big when malloc returns NULL: v->next and v->flags are stores
\* through NULL, big_objects = v follows them; the process faults with
\* big_objects still the old head, or (the stores reordered) already NULL
alloc_big_null ==
    /\ pc = "alloc"
    /\ cur_sz > MAX_POOL_SZ
    /\ big_objects' \in {big_objects, NULL}
    /\ pc' = "fault"
    /\ UNCHANGED <<mem, blocks, pools, allocd_bytes, roots, ref, last,
                   cur_sz, free_calls, live, pool_pages, hist>>

NextOOM ==
    \/ Next
    \/ add_page_null
    \/ alloc_big_null

SpecOOM == Init /\ [][NextOOM]_vars

\* C13: when the OS allocator gives no page or no big block, the call ends
\* with the pool's freelist, its page list and big_objects as they were
\* before it, none of them holding a pointer derived from the failed block.
C13_NoPartialLinkage ==
    [][pc' = "fault" => pools' = pools /\ big_objects' = big_objects]_vars

\* C14: every page a pool obtained from the OS and that no sweep released is
\* on the pool's page list.
C14_PagesLinked ==
    \A i \in PoolIds : pool_pages[i] \subseteq SeqSet(PagesOf(i))

\* C15: while the mutator runs, a cell of a pool's page has a reserved bit
\* set in its header exactly when it is on the pool's freelist.
C15_FreeEncodedIffOnFreelist ==
    pc = "idle" =>
        \A i \in PoolIds : \A pg \in pool_pages[i] :
            \A c \in CellsOfPage(pg, pools[i].osize) :
                gcv_isfree(mem[c]) <=> c \in FreeCells(i)

\* C16: a sweep keeps on the freelist every cell that was on it, unless it
\* releases the cell's page.
C16_NoFreeCellLost ==
    [][pc = "gc_sweep" =>
         \A i \in PoolIds : \A c \in FreeCells(i) :
             \/ c \in FreeCells(i)'
             \/ \E pg \in pool_pages[i] \ pool_pages'[i] : InPage(c, pg)]_vars

\* ------------------------------------------------------- add_page by itself
\* add_page(&pools[i]) on the heap as it stands, whether or not the pool's
\* freelist is empty
add_page_call(i) ==
    /\ pc = "idle"
    /\ \E pg \in malloc(PageSlots) :
         LET a == add_page(pools[i], mem, pg)
         IN  /\ mem' = a.mem
             /\ pools' = [pools EXCEPT ![i] = a.pool]
             /\ blocks' = blocks \cup {pg}
             /\ pool_pages' = [pool_pages EXCEPT ![i] = @ \cup {pg}]
    /\ UNCHANGED <<big_objects, allocd_bytes, roots, ref, last, pc, cur_sz,
                   free_calls, live, hist>>

NextPage == \E i \in 0..(N_POOLS - 1) : add_page_call(i)

SpecPage == Init /\ [][NextPage]_vars

\* C17: add_page makes the first cell of the new page the head of the
\* freelist, links the floor((16384 - 8) / osize) cells of the page one to the
\* next in increasing address order, links the last of them to the old head,
\* writes no word the heap held before, and the last cell ends within the page.
C17_PageThreaded ==
    [][\A i \in PoolIds : \A pg \in pool_pages'[i] \ pool_pages[i] :
         LET osize == pools[i].osize
             n == (GC_PAGE_SZ - WORD) \div osize
             cell(k) == pg + WORD + k * osize
         IN  /\ pools'[i].freelist = cell(0)
             /\ \A k \in 0..(n - 2) : mem'[cell(k)] = cell(k + 1)
             /\ mem'[cell(n - 1)] = pools[i].freelist
             /\ cell(n - 1) + osize <= pg + GC_PAGE_SZ
             /\ DOMAIN mem' = DOMAIN mem \cup {pg} \cup {cell(k) : k \in 0..(n - 1)}
             /\ \A a \in DOMAIN mem : mem'[a] = mem[a]]_vars

\* pool 0 got a second page: its 1023 cells lead to the first page's cells
C17_Witness ==
    \E pg1, pg2 \in pool_pages[0] :
        /\ pg1 /= pg2
        /\ pools[0].freelist = pg2 + WORD
        /\ mem[pg2 + WORD + 1022 * pools[0].osize] = pg1 + WORD
        /\ mem[pg1 + WORD + 1022 * pools[0].osize] = NULL

\* ------------------------------------------------ the mark phase step by step
\* gc_mark is entered: the roots are still to be marked.  `stale` holds the
\* header addresses in freed memory that read as marked.
gc_mark_begin ==
    /\ pc = "gc_mark"
    /\ ~mk.on
    /\ \E stale \in SUBSET Dangling :
         mk' = [on |-> TRUE, todo |-> roots, cur |-> NULL, stale |-> stale,
                cnt |-> <<>>]
    /\ UNCHANGED <<heap, allocd_bytes, roots, ref, last, pc, cur_sz, n_allocs,
                   entry_trig, n_collect, req_sum>>

\* GC_Markval(root) for the next root
gc_mark_root ==
    /\ pc = "gc_mark"
    /\ mk.on
    /\ mk.cur = NULL
    /\ mk.todo /= {}
    /\ LET r == CHOOSE x \in mk.todo : TRUE
       IN  mk' = [mk EXCEPT !.todo = @ \ {r}, !.cur = r]
    /\ UNCHANGED <<heap, allocd_bytes, roots, ref, last, pc, cur_sz, n_allocs,
                   entry_trig, n_collect, req_sum>>

\* one call of gc_markval: return if marked; else set the mark and go through
\* the object's references, which calls gc_markval on the one it holds.
\* cnt counts, up to 2, how often an object's references were gone through.
gc_markval_step ==
    /\ pc = "gc_mark"
    /\ mk.on
    /\ mk.cur /= NULL
    /\ LET v == mk.cur
           h == gc_val(v)
       IN  IF gc_marked(h, mem, mk.stale)
           THEN /\ mem' = mem
                /\ mk' = [mk EXCEPT !.cur = NULL]
           ELSE /\ mem' = IF h \in DOMAIN mem THEN Upd(mem, h, setmark(mem[h]))
                          ELSE mem
                /\ mk' = [mk EXCEPT
                            !.cur = FieldOf(v),
                            !.stale = IF h \in DOMAIN mem THEN @ ELSE @ \cup {h},
                            !.cnt = Upd(@, v, IF v \in DOMAIN @ THEN 2 ELSE 1)]
    /\ UNCHANGED <<blocks, pools, big_objects, free_calls, live, pool_pages,
                   allocd_bytes, roots, ref, last, pc, cur_sz, n_allocs,
                   entry_trig, n_collect, req_sum>>

\* gc_mark returns
gc_mark_end ==
    /\ pc = "gc_mark"
    /\ mk.on
    /\ mk.cur = NULL
    /\ mk.todo = {}
    /\ mk' = MkOff
    /\ pc' = "gc_sweep"
    /\ last' = NULL
    /\ n_collect' = IF cur_sz /= 0 THEN n_collect + 1 ELSE n_collect
    /\ UNCHANGED <<heap, allocd_bytes, roots, ref, cur_sz, n_allocs, entry_trig,
                   req_sum>>

MarkStep ==
    \/ gc_mark_begin
    \/ gc_mark_root
    \/ gc_markval_step
    \/ gc_mark_end

\* the collections are the ones the mutator calls: the request that alone
\* exceeds collect_interval is left out
NextMark ==
    \/ \E sz \in Sizes \ {collect_interval + 1} : allocb_enter(sz)
    \/ allocb_big
    \/ allocb_pool
    \/ gc_collect_call
    \/ MarkStep
    \/ gc_sweep_step
    \/ \E o \in Held, t \in Held \cup {NULL} : set_field(o, t)
    \/ \E o \in Held : add_root(o)
    \/ \E o \in roots : drop_root(o)

\* gc_mark runs to its end once it is called
SpecMark == Init /\ [][NextMark]_vars /\ WF_vars(MarkStep)

\* C18: every mark phase ends, and within it the references of an object are
\* gone through at most once.
C18_MarkTerminates ==
    /\ [](\A o \in DOMAIN mk.cnt : mk.cnt[o] <= 1)
    /\ (pc = "gc_mark" ~> pc = "gc_sweep")

\* the mark phase came back to a marked object through a cycle of two objects
C18_Witness ==
    /\ pc = "gc_mark"
    /\ mk.on
    /\ mk.cur /= NULL
    /\ mk.cur \in DOMAIN mk.cnt
    /\ FieldOf(mk.cur) /= mk.cur
    /\ FieldOf(FieldOf(mk.cur)) = mk.cur

\* ------------------------------------------------- one more call of allocb
\* allocb called once after the calls Next allows
allocb_again(sz) ==
    /\ pc = "idle"
    /\ n_allocs = MaxAllocs
    /\ cur_sz' = sz
    /\ pc' = IF allocb_trigger(allocd_bytes, sz) THEN "gc_mark" ELSE "alloc"
    /\ n_allocs' = n_allocs + 1
    /\ entry_trig' = (allocd_bytes > collect_interval)
    /\ n_collect' = 0
    /\ req_sum' = req_sum + sz
    /\ UNCHANGED <<heap, allocd_bytes, roots, ref, last, mk>>

NextDeep ==
    \/ Next
    \/ \E sz \in Sizes \ {collect_interval + 1} : allocb_again(sz)

SpecDeep == Init /\ [][NextDeep]_vars

\* C19: the address allocb returns is not the address of an object the
\* mutator can still reach from the roots, and the cell is on no freelist.
C19_NoLiveCellHandedOut ==
    [][pc = "alloc" =>
         /\ last' \notin Addressable
         /\ \A i \in PoolIds : gc_val(last') \notin FreeCells(i)']_vars

\* a pointer kept in a heap structure is NULL or points into a block that
\* was not freed
InBlock(a) ==
    \/ \E b \in blocks \cap PageSlots : a >= b /\ a < b + GC_PAGE_SZ
    \/ \E b \in blocks \cap BigSlots : a >= b /\ a < b + 2 * collect_interval
Linked(a) == a = NULL \/ (a \in DOMAIN mem /\ InBlock(a))
NoFreedBlockLinked ==
    /\ Linked(big_objects)
    /\ \A r \in blocks \cap BigSlots : Linked(mem[r])
    /\ \A i \in PoolIds :
         /\ Linked(pools[i].pages)
         /\ Linked(pools[i].freelist)
         /\ \A pg \in pool_pages[i] :
              /\ Linked(mem[pg])
              /\ \A c \in CellsOfPage(pg, pools[i].osize) :
                   gcv_isfree(mem[c]) => Linked(mem[c])

\* C20: a sweep passes to free only blocks that are allocated at that time,
\* none of them twice, and after it (as after every other step) no list head
\* and no link of a record, a page or a free cell points into a freed block.
C20_FreedOnceAndUnlinked ==
    [][/\ pc = "gc_sweep" =>
            /\ NoDuplicates(free_calls')
            /\ SeqSet(free_calls') \subseteq blocks
            /\ SeqSet(free_calls') \cap SeqSet(BigList') = {}
       /\ NoFreedBlockLinked']_vars

\* a sweep has just freed the record that was the head of big_objects and
\* kept the one behind it
C20_Witness ==
    /\ pc = "idle"
    /\ Len(free_calls) = 1
    /\ free_calls[1] \notin blocks
    /\ big_objects \in blocks
    /\ big_objects < free_calls[1]
    /\ mem[big_objects] = NULL

====
